---- MODULE Spec2Model ----
(***************************************************************************)
(* A model of the patch-build scripts:                                     *)
(*   scripts/build_from_repo.py  (repository-listing driver),              *)
(*   scripts/build_logic.py      (scraping driver),                        *)
(*   scripts/check_versions.py   (compatibility listing).                  *)
(* Python strings are TLA+ strings; the string methods the scripts use     *)
(* (startswith, endswith, in, split, strip, lower, int) are computed       *)
(* character by character.                                                 *)
(***************************************************************************)
EXTENDS Integers, Sequences, FiniteSets, TLC

VARIABLES
    \* build_from_repo.main
    pc, patch_source, apps_input, manual_version_input, apps_to_process,
    idx, success_count, exitCode, exitAt, summaryPrinted, tools, store,
    \* build_from_repo.patch_app (the application being processed)
    stage, fail, app, app_version_setting, candidate_versions, lookups,
    selected_version, apk_filename, calls, results,
    \* the outcome of the list-versions subprocess that patch_app ran
    report,
    \* the exit code of the patch subprocess that patch_app ran (-1: none)
    patch_rc,
    \* one call of find_apk_in_release
    fa,
    \* build_logic.scrape_apkmirror_full, variant selection
    vs,
    \* one call of parse_version_override
    ov,
    \* one call of get_target_versions
    tv,
    \* one call of strip_monolithic_apk
    sm,
    \* one call of merge_bundle or of build_logic.process_apk
    mb,
    \* one call of download_file
    dl,
    \* two normalizations running side by side
    par,
    \* one run of build_logic.main (the scraping driver)
    sd

mainVars == <<pc, patch_source, apps_input, manual_version_input,
              apps_to_process, idx, success_count, exitCode, exitAt,
              summaryPrinted, tools, store>>
appVars == <<stage, fail, app, app_version_setting, candidate_versions, lookups,
             selected_version, apk_filename, calls, results, report,
             patch_rc>>
vars == <<mainVars, appVars, fa, vs, ov, tv, sm, mb, dl, par, sd>>

\* Python's None.
None == "<None>"

-----------------------------------------------------------------------------
(* Bounds of the model. *)

\* Longest asset listing of the artifact store.
MaxAssets == 2

-----------------------------------------------------------------------------
(* Python string and list primitives. *)

Char(s, i) == SubSeq(s, i, i)

\* s.startswith(p)
StartsWith(s, p) == Len(p) <= Len(s) /\ SubSeq(s, 1, Len(p)) = p

\* s.endswith(x)
EndsWith(s, x) == Len(x) <= Len(s) /\ SubSeq(s, Len(s) - Len(x) + 1, Len(s)) = x

\* sub in s
Contains(s, sub) ==
    \E i \in 1..(Len(s) - Len(sub) + 1) : SubSeq(s, i, i + Len(sub) - 1) = sub

\* the tuples of length 0..n over S
SeqsUpTo(S, n) == UNION {[1..k -> S] : k \in 0..n}

-----------------------------------------------------------------------------
(* build_from_repo.find_apk_in_release *)

\* an asset of the release listing: its name and its API url
AssetUrl(name) == "url:" \o name

\* the tuple of extensions of line 303
ApkExtensions == {".apk", ".apkm", ".apks", ".xapk"}

\* f"{app_name}-v{version}"
TargetBase(app_name, version) == app_name \o "-v" \o version

\* line 303: name.startswith(target_base) and name.endswith((...))
AssetMatches(name, target_base) ==
    /\ StartsWith(name, target_base)
    /\ \E e \in ApkExtensions : EndsWith(name, e)

\* lines 299-306: the first matching asset of the listing, or (None, None)
RECURSIVE FirstMatch(_, _, _)
FirstMatch(assets, target_base, i) ==
    IF i > Len(assets) THEN [url |-> None, name |-> None]
    ELSE IF AssetMatches(assets[i], target_base)
         THEN [url |-> AssetUrl(assets[i]), name |-> assets[i]]
         ELSE FirstMatch(assets, target_base, i + 1)

\* lines 290-306.  release is what get_latest_github_release returned: ok is
\* FALSE for None (line 296 then raises), assets are the names of the listing.
find_apk_in_release(release, app_name, version) ==
    IF ~release.ok
    THEN [raised |-> TRUE, url |-> None, name |-> None]
    ELSE LET m == FirstMatch(release.assets, TargetBase(app_name, version), 1)
         IN  [raised |-> FALSE, url |-> m.url, name |-> m.name]

-----------------------------------------------------------------------------
(* More string primitives. *)

\* the characters of a string, as a set
CharsOf(s) == {Char(s, i) : i \in 1..Len(s)}

Whitespace == {" ", "\t", "\n", "\r"}
DigitString == "0123456789"
Digits == CharsOf(DigitString)
\* the class [a-zA-Z0-9_.]
PkgChars ==
    CharsOf("abcdefghijklmnopqrstuvwxyzABCDEFGHIJKLMNOPQRSTUVWXYZ0123456789_.")

IsDigit(c) == c \in Digits

\* s.split(sep) for a one-character separator: the pieces between the
\* occurrences of sep, in order
Split(s, sep) ==
    LET at == {i \in 1..Len(s) : Char(s, i) = sep}
        n  == Cardinality(at)
        cut(k) == IF k = 0 THEN 0
                  ELSE IF k = n + 1 THEN Len(s) + 1
                  ELSE CHOOSE p \in at : Cardinality({q \in at : q < p}) = k - 1
    IN  [k \in 1..(n + 1) |-> SubSeq(s, cut(k - 1) + 1, cut(k) - 1)]

\* s.strip()
Strip(s) ==
    LET keep == {i \in 1..Len(s) : Char(s, i) \notin Whitespace}
    IN  IF keep = {} THEN ""
        ELSE SubSeq(s, CHOOSE i \in keep : \A j \in keep : i <= j,
                       CHOOSE i \in keep : \A j \in keep : j <= i)

\* s.lstrip('v')
RECURSIVE LStripV(_)
LStripV(s) ==
    IF Len(s) > 0 /\ Char(s, 1) = "v" THEN LStripV(SubSeq(s, 2, Len(s))) ELSE s

\* x.isdigit(): non-empty and digits only
IsDigitStr(x) == Len(x) > 0 /\ \A i \in 1..Len(x) : IsDigit(Char(x, i))

DigitVal(c) == CHOOSE d \in 0..9 : Char(DigitString, d + 1) = c

\* int(x) for a string of digits
RECURSIVE ToInt(_)
ToInt(x) ==
    IF Len(x) = 0 THEN 0
    ELSE 10 * ToInt(SubSeq(x, 1, Len(x) - 1)) + DigitVal(Char(x, Len(x)))

\* text.splitlines(), for "\n" line ends
SplitLines(text) ==
    LET pieces == Split(text, "\n")
    IN  IF pieces[Len(pieces)] = "" THEN SubSeq(pieces, 1, Len(pieces) - 1)
        ELSE pieces

\* the index after the longest run of characters of class cls that starts at i
RunEnd(s, i, cls) ==
    LET stops == {j \in i..Len(s) : Char(s, j) \notin cls}
    IN  IF stops = {} THEN Len(s) + 1
        ELSE CHOOSE j \in stops : \A k \in stops : j <= k

\* Python's a < b on lists of integers
RECURSIVE ListLess(_, _)
ListLess(a, b) ==
    IF Len(b) = 0 THEN FALSE
    ELSE IF Len(a) = 0 THEN TRUE
    ELSE IF Head(a) # Head(b) THEN Head(a) < Head(b)
    ELSE ListLess(Tail(a), Tail(b))

-----------------------------------------------------------------------------
(* build_from_repo.parse_version_override *)

\* line 163, mutated: the first entry of the table, whatever its key
OverridesGetFirst(pairs, current_app) ==
    IF Len(pairs) = 0 THEN "auto" ELSE pairs[1][2]

\* lines 159-163: the dict built from the (key, value) pairs in order, later
\* pairs replacing earlier ones, then overrides.get(current_app, "auto")
OverridesGet(pairs, current_app) ==
    LET hits == {i \in 1..Len(pairs) : pairs[i][1] = current_app}
    IN  IF hits = {} THEN "auto"
        ELSE pairs[CHOOSE i \in hits : \A j \in hits : j <= i][2]

\* lines 153-168
parse_version_override(override_string, current_app) ==
    IF override_string \in {None, "", "auto"} THEN "auto"
    ELSE IF Contains(override_string, "=")
    THEN LET parts  == Split(override_string, ",")
             pieces == [i \in 1..Len(parts) |-> Split(parts[i], "=")]
         IN  IF \E i \in 1..Len(parts) : Len(pieces[i]) # 2
             THEN "auto"   \* ValueError on unpacking, caught at line 164
             ELSE OverridesGet(
                      [i \in 1..Len(parts) |->
                          <<Strip(pieces[i][1]), Strip(pieces[i][2])>>],
                      current_app)
    ELSE override_string

-----------------------------------------------------------------------------
(* build_from_repo.get_target_versions *)

\* re.search(r"Package name:\s*([a-zA-Z0-9_.]+)", line): group 1 or None
PkgMatch(line) ==
    LET tag == "Package name:"
        ok(i) == /\ SubSeq(line, i, i + Len(tag) - 1) = tag
                 /\ LET b == RunEnd(line, i + Len(tag), Whitespace)
                    IN  RunEnd(line, b, PkgChars) > b
        at == {i \in 1..(Len(line) - Len(tag) + 1) : ok(i)}
    IN  IF at = {} THEN None
        ELSE LET i == CHOOSE k \in at : \A j \in at : k <= j
                 b == RunEnd(line, i + Len(tag), Whitespace)
             IN  SubSeq(line, b, RunEnd(line, b, PkgChars) - 1)

\* the end of the longest (\.\d+)* that starts at p
RECURSIVE DotGroupsEnd(_, _)
DotGroupsEnd(line, p) ==
    IF p <= Len(line) /\ Char(line, p) = "." /\ RunEnd(line, p + 1, Digits) > p + 1
    THEN DotGroupsEnd(line, RunEnd(line, p + 1, Digits))
    ELSE p

\* re.match(r'^(v?\d+(\.\d+)+)', line): group 1 or None
MatchVersion(line) ==
    LET p0 == IF Len(line) > 0 /\ Char(line, 1) = "v" THEN 2 ELSE 1
        p1 == RunEnd(line, p0, Digits)
        p2 == DotGroupsEnd(line, p1)
    IN  IF p1 > p0 /\ p2 > p1 THEN SubSeq(line, 1, p2 - 1) ELSE None

\* lines 186-200, mutated: without the test of line 194, the versions of
\* every section are taken
RECURSIVE ParseLinesAnySection(_, _, _, _, _)
ParseLinesAnySection(lines, i, current_pkg, versions, package_name) ==
    IF i > Len(lines) THEN versions
    ELSE LET line == Strip(lines[i])
         IN  IF line = "" \/ PkgMatch(line) # None \/ MatchVersion(line) = None
             THEN ParseLinesAnySection(lines, i + 1, current_pkg, versions,
                                       package_name)
             ELSE ParseLinesAnySection(lines, i + 1, current_pkg,
                                       Append(versions, MatchVersion(line)),
                                       package_name)

\* lines 186-200: the loop over the lines of the tool's output
RECURSIVE ParseLines(_, _, _, _, _)
ParseLines(lines, i, current_pkg, versions, package_name) ==
    IF i > Len(lines) THEN versions
    ELSE LET line == Strip(lines[i])
         IN  IF line = ""
             THEN ParseLines(lines, i + 1, current_pkg, versions, package_name)
             ELSE IF PkgMatch(line) # None
             THEN ParseLines(lines, i + 1, PkgMatch(line), versions, package_name)
             ELSE IF current_pkg = package_name /\ MatchVersion(line) # None
             THEN ParseLines(lines, i + 1, current_pkg,
                             Append(versions, MatchVersion(line)), package_name)
             ELSE ParseLines(lines, i + 1, current_pkg, versions, package_name)

\* line 204, mutated: the key is the text itself, character by character
\* (the order of the strings, '.' before every digit)
VersionKeyText(s) ==
    LET t == LStripV(s)
    IN  [i \in 1..Len(t) |->
            IF IsDigit(Char(t, i)) THEN DigitVal(Char(t, i)) + 1 ELSE 0]

\* line 204, the sort key: [int(x) for x in s.lstrip('v').split('.') if x.isdigit()]
VersionKey(s) ==
    LET xs   == Split(LStripV(s), ".")
        keep == {i \in 1..Len(xs) : IsDigitStr(xs[i])}
        nth(k) == CHOOSE i \in keep : Cardinality({j \in keep : j < i}) = k - 1
    IN  [k \in 1..Cardinality(keep) |-> ToInt(xs[nth(k)])]

\* list.sort(key=..., reverse=True) is stable: x goes after every element
\* whose key is not smaller than its own
RECURSIVE InsertDesc(_, _)
InsertDesc(sorted, x) ==
    IF sorted = <<>> THEN <<x>>
    ELSE IF ListLess(VersionKey(Head(sorted)), VersionKey(x))
         THEN <<x>> \o sorted
         ELSE <<Head(sorted)>> \o InsertDesc(Tail(sorted), x)

RECURSIVE SortDesc(_)
SortDesc(versions) ==
    IF versions = <<>> THEN <<>>
    ELSE InsertDesc(SortDesc(SubSeq(versions, 1, Len(versions) - 1)),
                    versions[Len(versions)])

\* line 175, mutated: the test for "auto" inverted
IsManualInverted(manual_version) ==
    manual_version \notin {None, ""} /\ manual_version = "auto"

\* line 175: manual_version and manual_version != "auto"
IsManual(manual_version) ==
    manual_version \notin {None, ""} /\ manual_version # "auto"

\* lines 170-211.  cli is the outcome of the list-versions subprocess: ok (exit
\* code 0) and its standard output; invoked tells whether it was run at all.
get_target_versions(cli, package_name, manual_version) ==
    IF IsManual(manual_version)
    THEN [raised |-> FALSE, invoked |-> FALSE, versions |-> <<manual_version>>]
    ELSE LET listed == ParseLines(SplitLines(cli.output), 1, None, <<>>,
                                  package_name)
         IN  IF cli.ok /\ listed # <<>>
             THEN [raised |-> FALSE, invoked |-> TRUE,
                   versions |-> SortDesc(listed)]
             ELSE [raised |-> TRUE, invoked |-> TRUE, versions |-> <<>>]

-----------------------------------------------------------------------------
(* check_versions.check_versions: the parsing loop (lines 98-126) *)

APPS_TO_CHECK ==
    {"com.google.android.youtube", "com.google.android.apps.youtube.music",
     "com.reddit.frontpage", "com.twitter.android", "com.spotify.music"}

\* lines 120-126: found_versions[current_pkg] gets v unless it holds it
AppendNew(found, v) ==
    IF \E k \in 1..Len(found) : found[k] = v THEN found ELSE Append(found, v)

\* lines 98-126 for one application: found is found_versions[app], the empty
\* list while app is not a key of found_versions
RECURSIVE FoundVersions(_, _, _, _, _)
FoundVersions(lines, i, current_pkg, found, a) ==
    IF i > Len(lines) THEN found
    ELSE LET line == Strip(lines[i])
         IN  IF line = ""
             THEN FoundVersions(lines, i + 1, current_pkg, found, a)
             ELSE IF PkgMatch(line) # None
             THEN FoundVersions(lines, i + 1, PkgMatch(line), found, a)
             ELSE IF current_pkg \notin APPS_TO_CHECK \/ current_pkg # a
             THEN FoundVersions(lines, i + 1, current_pkg, found, a)
             ELSE IF Contains(line, "compatible versions")
             THEN FoundVersions(lines, i + 1, current_pkg, found, a)
             ELSE IF MatchVersion(line) # None
             THEN FoundVersions(lines, i + 1, current_pkg,
                                AppendNew(found, MatchVersion(line)), a)
             ELSE IF Contains(line, "Any")
             THEN FoundVersions(lines, i + 1, current_pkg,
                                AppendNew(found, "Any"), a)
             ELSE FoundVersions(lines, i + 1, current_pkg, found, a)

-----------------------------------------------------------------------------
(* The state of build_from_repo.main and patch_app while another function   *)
(* is exercised on its own.                                                 *)

\* no list-versions subprocess was run
NoReport == [ok |-> FALSE, output |-> ""]

MainIdle ==
    /\ pc = "idle" /\ patch_source = None /\ apps_input = None
    /\ manual_version_input = None /\ apps_to_process = <<>>
    /\ idx = 0 /\ success_count = 0 /\ exitCode = -1 /\ exitAt = None
    /\ summaryPrinted = FALSE /\ tools = None /\ store = <<>>
    /\ stage = "idle" /\ fail = None /\ app = None
    /\ app_version_setting = None
    /\ candidate_versions = <<>> /\ lookups = <<>>
    /\ selected_version = None /\ apk_filename = None
    /\ calls = [cli |-> 0, download |-> 0, normalize |-> 0, patch |-> 0]
    /\ results = <<>> /\ report = NoReport /\ patch_rc = -1

NoCall == [pc |-> "idle"]

-----------------------------------------------------------------------------
(* find_apk_in_release on every small listing. *)

LocateApps == {"youtube", "reddit"}
LocateVersions == {"19.16.39", "19.16.391", "2.0", "v19.16.39"}
AssetPool == {"youtube-v19.16.39.apk", "youtube-v19.16.391.apk",
              "youtube-v19.16.39.apkm", "youtube-v19.16.39.txt",
              "reddit-v19.16.39.xapk", "youtube-v2.0.apks"}

Releases ==
    {[ok |-> FALSE, assets |-> <<>>]}
    \cup {[ok |-> TRUE, assets |-> a] : a \in SeqsUpTo(AssetPool, MaxAssets)}

InitLocate ==
    /\ MainIdle /\ sd = NoCall
    /\ sm = NoCall /\ mb = NoCall /\ dl = NoCall /\ par = NoCall
    /\ vs = NoCall /\ ov = NoCall /\ tv = NoCall
    /\ fa \in {[pc |-> "call", app_name |-> a, version |-> v, release |-> r,
                result |-> [raised |-> FALSE, url |-> None, name |-> None]] :
               a \in LocateApps, v \in LocateVersions, r \in Releases}

FindApk ==
    /\ fa.pc = "call"
    /\ fa' = [fa EXCEPT !.pc = "done",
                 !.result = find_apk_in_release(fa.release, fa.app_name, fa.version)]
    /\ UNCHANGED <<sd, mainVars, appVars, vs, ov, tv, sm, mb, dl, par>>

NextLocate == FindApk

SpecLocate == InitLocate /\ [][NextLocate]_vars

\* C2: find_apk_in_release never returns an asset whose version merely extends
\* the requested one: in the returned name, the text right after the prefix
\* '<app>-v<version>' starts one of the accepted extensions (so a lookup for
\* 19.16.39 does not return youtube-v19.16.391.apk).
C2_NoVersionExtension ==
    (fa.pc = "done" /\ fa.result.name # None) =>
        LET base == TargetBase(fa.app_name, fa.version)
            rest == SubSeq(fa.result.name, Len(base) + 1, Len(fa.result.name))
        IN  \E e \in ApkExtensions : StartsWith(rest, e)

\* C28: the candidate get_target_versions takes from a report line
\* 'v19.16.39' locates, for youtube, the asset the untagged 19.16.39
\* locates: with youtube-v19.16.39.apk in the store it is found.
C28_TaggedVersionLocated ==
    (/\ fa.pc = "done" /\ fa.app_name = "youtube"
     /\ fa.version = MatchVersion("v19.16.39")
     /\ fa.release.ok
     /\ \E i \in 1..Len(fa.release.assets) :
            fa.release.assets[i] = "youtube-v19.16.39.apk")
    => /\ fa.result.name # None
       /\ fa.result = find_apk_in_release(fa.release, "youtube", "19.16.39")

-----------------------------------------------------------------------------
(* parse_version_override on every small override table. *)

\* Longest override table.
MaxPairs == 2

OverrideKeys == {"a", "b"}
OverrideValues == {"3.1", "2.0", "auto"}
OverrideApps == {"a", "b", "c"}
PlainOverrides == {"", "auto", "3.1"}

\* the text of an override table: key=value entries joined by commas, with
\* blanks around keys and values when pad is set
RECURSIVE FormatTable(_, _)
FormatTable(table, pad) ==
    LET sp == IF pad THEN " " ELSE ""
        entry(e) == sp \o e[1] \o sp \o "=" \o sp \o e[2] \o sp
    IN  IF table = <<>> THEN ""
        ELSE IF Len(table) = 1 THEN entry(table[1])
        ELSE entry(table[1]) \o "," \o FormatTable(Tail(table), pad)

InitOverride ==
    /\ MainIdle /\ sd = NoCall
    /\ sm = NoCall /\ mb = NoCall /\ dl = NoCall /\ par = NoCall
    /\ vs = NoCall /\ fa = NoCall /\ tv = NoCall
    /\ \/ \E t \in SeqsUpTo(OverrideKeys \X OverrideValues, MaxPairs) \ {<<>>},
             pad \in BOOLEAN, a \in OverrideApps :
             ov = [pc |-> "call", kind |-> "table", table |-> t,
                   override_string |-> FormatTable(t, pad),
                   current_app |-> a, result |-> None]
       \/ \E o \in PlainOverrides, a \in OverrideApps :
             ov = [pc |-> "call", kind |-> "plain", table |-> <<>>,
                   override_string |-> o, current_app |-> a, result |-> None]

ParseOverride ==
    /\ ov.pc = "call"
    /\ ov' = [ov EXCEPT !.pc = "done",
                 !.result = parse_version_override(ov.override_string,
                                                   ov.current_app)]
    /\ UNCHANGED <<sd, mainVars, appVars, vs, fa, tv, sm, mb, dl, par>>

NextOverride == ParseOverride

SpecOverride == InitOverride /\ [][NextOverride]_vars

\* C8: for an override table, parse_version_override returns the value the
\* table maps the application key to (the last one, if the key is repeated),
\* never another key's value, and Auto for an application absent from the
\* table; "a=3.1,b=auto" gives Auto for b and 3.1 for a.
C8_OverrideTableLookup ==
    (ov.pc = "done" /\ ov.kind = "table") =>
        LET t == ov.table
            mine == {i \in 1..Len(t) : t[i][1] = ov.current_app}
        IN  /\ mine = {} => ov.result = "auto"
            /\ \A i \in mine : (\A j \in mine : j <= i) => ov.result = t[i][2]
            /\ ov.override_string = "a=3.1,b=auto" =>
                   ov.result = (IF ov.current_app = "a" THEN "3.1" ELSE "auto")

\* the table "a=3.1,b=auto" was applied to application b and gave Auto
C8_Witness ==
    /\ ov.pc = "done" /\ ov.override_string = "a=3.1,b=auto"
    /\ ov.current_app = "b" /\ ov.result = "auto"

-----------------------------------------------------------------------------
(* get_target_versions on every small report. *)

\* Longest report, in lines.
MaxLines == 4

YoutubePkg == "com.google.android.youtube"
RedditPkg == "com.reddit.frontpage"

ReportLines == {"Package name: " \o YoutubePkg, "Package name: " \o RedditPkg,
                "  19.16.39", "  19.16.9", "  19.2.0", "  v19.16.39",
                "  (58 patches)"}
\* report lines with a bare package identifier as header, an annotation
\* and the 'no constraint' marker
MarkerLines == {YoutubePkg, "Package name: " \o YoutubePkg, "  19.16.39",
                "  (58 patches)", "  Any"}
\* report lines whose leading token goes on after a version
TokenLines == {"Package name: " \o YoutubePkg, "  19.16.39-beta",
               "  19.16.39abc", "  19.2.0 (latest)"}
ManualVersions == {"auto", "19.16.39", "20.05.1"}

\* the report text of a list of lines, each ended by a newline
RECURSIVE JoinLines(_)
JoinLines(lines) ==
    IF lines = <<>> THEN "" ELSE Head(lines) \o "\n" \o JoinLines(Tail(lines))

InitVersions ==
    /\ MainIdle /\ sd = NoCall
    /\ sm = NoCall /\ mb = NoCall /\ dl = NoCall /\ par = NoCall
    /\ vs = NoCall /\ fa = NoCall /\ ov = NoCall
    /\ \E ls \in SeqsUpTo(ReportLines, MaxLines)
                    \cup SeqsUpTo(MarkerLines, MaxLines)
                    \cup SeqsUpTo(TokenLines, MaxLines),
          ok \in BOOLEAN, m \in ManualVersions :
          /\ ~ok => ls = <<>>
          /\ tv = [pc |-> "call", lines |-> ls,
                   cli |-> [ok |-> ok, output |-> JoinLines(ls)],
                   package_name |-> YoutubePkg, manual_version |-> m,
                   result |-> [raised |-> FALSE, invoked |-> FALSE,
                               versions |-> <<>>],
                   found |-> <<>>]

GetTargetVersions ==
    /\ tv.pc = "call"
    /\ tv' = [tv EXCEPT !.pc = "done",
                 !.result = get_target_versions(tv.cli, tv.package_name,
                                                tv.manual_version)]
    /\ UNCHANGED <<sd, mainVars, appVars, vs, fa, ov, sm, mb, dl, par>>

\* check_versions on the same report: what it collects for the package
CheckVersions ==
    /\ tv.pc = "call" /\ tv.cli.ok
    /\ tv' = [tv EXCEPT !.pc = "checked",
                 !.found = FoundVersions(SplitLines(tv.cli.output), 1, None,
                                         <<>>, tv.package_name)]
    /\ UNCHANGED <<sd, mainVars, appVars, vs, fa, ov, sm, mb, dl, par>>

NextVersions == GetTargetVersions \/ CheckVersions

SpecVersions == InitVersions /\ [][NextVersions]_vars

\* the versions listed for package_name in the lines of the report
ListedIn(lines, package_name) ==
    ParseLines(lines, 1, None, <<>>, package_name)

\* C9: when the override is an explicit version, get_target_versions returns
\* exactly the singleton list of that version, whether or not the report lists
\* it, and does not invoke the compatibility-report tool.
C9_ManualIsSingleton ==
    (tv.pc = "done" /\ tv.manual_version # "auto") =>
        /\ tv.result.versions = <<tv.manual_version>>
        /\ ~tv.result.raised
        /\ ~tv.result.invoked

\* an explicit version the report does not list for the package was returned
C9_Witness ==
    /\ tv.pc = "done" /\ tv.manual_version = "20.05.1" /\ tv.cli.ok
    /\ ListedIn(tv.lines, tv.package_name) = <<"19.16.39", "19.2.0">>
    /\ tv.result.versions = <<"20.05.1">>

\* the numeric components of the version strings of the reports
VersionNumbers(v) ==
    CASE v \in {"19.16.39", "v19.16.39"} -> <<19, 16, 39>>
      [] v = "19.16.9" -> <<19, 16, 9>>
      [] v = "19.2.0" -> <<19, 2, 0>>
      [] v = "2.0" -> <<2, 0>>
      [] v = "1.0" -> <<1, 0>>

\* a is before b in component-wise, left-to-right numeric comparison
NumericallyLess(a, b) ==
    \E k \in 1..Len(b) :
        /\ \A i \in 1..(k - 1) : i <= Len(a) /\ a[i] = b[i]
        /\ (k > Len(a) \/ a[k] < b[k])

\* C10: the candidate list returned in Auto mode is in descending order of
\* component-wise numeric comparison (19.16.39 before 19.16.9 before 19.2.0),
\* with or without the 'v' tag, never in string order.
C10_SortedDescending ==
    (tv.pc = "done" /\ tv.manual_version = "auto" /\ ~tv.result.raised) =>
        LET vsn == tv.result.versions
        IN  \A i, j \in 1..Len(vsn) :
                i < j => ~NumericallyLess(VersionNumbers(vsn[i]),
                                          VersionNumbers(vsn[j]))

\* a report listing 19.2.0, 19.16.9, 19.16.39 in that order gave the list
\* 19.16.39, 19.16.9, 19.2.0
C10_Witness ==
    /\ tv.pc = "done" /\ tv.manual_version = "auto"
    /\ tv.lines = <<"Package name: " \o YoutubePkg, "  19.2.0", "  19.16.9",
                    "  19.16.39">>
    /\ tv.result.versions = <<"19.16.39", "19.16.9", "19.2.0">>

\* the report of three lines: bare header, version, annotation
BareReport == <<YoutubePkg, "  19.16.39", "  (58 patches)">>

\* C11: from the report whose lines are the bare package identifier, the
\* indented version 19.16.39 and the indented annotation (58 patches), both
\* parsers extract exactly the version 19.16.39 for that package: the bare
\* line opens the section and the annotation adds no version.
C11_BareHeaderOpensSection ==
    (tv.lines = BareReport /\ tv.cli.ok) =>
        /\ (tv.pc = "done" /\ tv.manual_version = "auto") =>
               (~tv.result.raised /\ tv.result.versions = <<"19.16.39">>)
        /\ tv.pc = "checked" => tv.found = <<"19.16.39">>

\* the lines of the package's section carry the 'no constraint' marker and
\* no version
Unconstrained(lines, package_name) ==
    FoundVersions(lines, 1, None, <<>>, package_name) = <<"Any">>

\* C13: in Auto mode, for a package whose section carries the marker Any and
\* no version, get_target_versions does not raise as it does for a package
\* absent from the report, so that patch_app goes on with the application.
C13_UnconstrainedProceeds ==
    (/\ tv.pc = "done" /\ tv.manual_version = "auto" /\ tv.cli.ok
     /\ Unconstrained(tv.lines, tv.package_name)) => ~tv.result.raised

\* the leading token of a stripped line: its text up to the first whitespace
LeadingToken(line) ==
    LET ws == {j \in 1..Len(line) : Char(line, j) \in Whitespace}
    IN  IF ws = {} THEN line
        ELSE SubSeq(line, 1, (CHOOSE j \in ws : \A k \in ws : j <= k) - 1)

\* C23: every version the parsers take from the package's section is the
\* whole leading token of one of its lines; a line whose leading token only
\* starts like a version (19.16.39-beta, 19.16.39abc) gives no version, and
\* no line makes the parsing fail.
C23_WholeTokenOnly ==
    LET tokens == {LeadingToken(Strip(tv.lines[i])) : i \in 1..Len(tv.lines)}
    IN  /\ (tv.pc = "done" /\ tv.manual_version = "auto") =>
               \A k \in 1..Len(tv.result.versions) :
                   tv.result.versions[k] \in tokens
        /\ tv.pc = "checked" =>
               \A k \in 1..Len(tv.found) :
                   tv.found[k] \in tokens \cup {"Any"}

\* C27: the Auto candidate list get_target_versions returns holds no version
\* twice, whatever the report text: a version listed several times under the
\* package, or a repeated package section, gives a single candidate.
C27_NoDuplicateCandidate ==
    (tv.pc = "done" /\ tv.manual_version = "auto" /\ ~tv.result.raised) =>
        \A j, k \in 1..Len(tv.result.versions) :
            tv.result.versions[j] = tv.result.versions[k] => j = k

-----------------------------------------------------------------------------
(* build_logic.scrape_apkmirror_full: the choice of the variant row *)
(* (lines 179-214).                                                 *)

\* Most variant rows on a release page.
MaxRows == 2

UpperCase == "ABCDEFGHIJKLMNOPQRSTUVWXYZ"
LowerCase == "abcdefghijklmnopqrstuvwxyz"

LowerChar(c) ==
    IF \E i \in 1..Len(UpperCase) : Char(UpperCase, i) = c
    THEN Char(LowerCase, CHOOSE i \in 1..Len(UpperCase) : Char(UpperCase, i) = c)
    ELSE c

\* s.lower()
RECURSIVE Lower(_)
Lower(s) ==
    IF Len(s) = 0 THEN ""
    ELSE IF Len(s) = 1 THEN LowerChar(s)
    ELSE Lower(SubSeq(s, 1, Len(s) \div 2))
             \o Lower(SubSeq(s, Len(s) \div 2 + 1, Len(s)))

\* row.get_text(): the text of the cells of the row, one after the other
RECURSIVE RowText(_)
RowText(cells) ==
    IF cells = <<>> THEN "" ELSE Head(cells) \o " " \o RowText(Tail(cells))

\* lines 199-203, mutated: no branch for x86
ArchScoreNoSkip(variant_text) ==
    IF Contains(variant_text, "arm64-v8a") THEN 10
    ELSE IF Contains(variant_text, "universal") THEN 5
    ELSE IF Contains(variant_text, "noarch") THEN 5
    ELSE 0

\* lines 199-203: the score after the architecture test
ArchScore(variant_text) ==
    IF Contains(variant_text, "arm64-v8a") THEN 10
    ELSE IF Contains(variant_text, "universal") THEN 5
    ELSE IF Contains(variant_text, "noarch") THEN 5
    ELSE IF Contains(variant_text, "x86") THEN -100
    ELSE 0

\* lines 199-205: the total score of a row
VariantScore(row) ==
    ArchScore(Lower(RowText(row.cells)))
        + (IF Contains(Lower(row.cells[2]), "apk") THEN 2 ELSE 0)

\* lines 190-195: the rows the loop skips
RowSkipped(row) == Len(row.cells) < 2 \/ row.href = None

\* line 197
VariantUrl(row) == "https://www.apkmirror.com" \o row.href

\* the architecture cell and the format cell of the rows of the model
ArchCells == {"arm64-v8a", "x86", "armeabi-v7a", "universal", "noarch",
              "arm64-v8a + armeabi-v7a"}
FormatCells == {"APK", "BUNDLE"}

\* the rows that can stand at position i of the page: each links to its own
\* variant page; one row has no link, one has a single cell
RowsAt(i) ==
    LET href == "/variant-" \o Char(DigitString, i + 1)
    IN  {[cells |-> <<a, f>>, href |-> href] : a \in ArchCells, f \in FormatCells}
        \cup {[cells |-> <<"arm64-v8a", "APK">>, href |-> None],
              [cells |-> <<"arm64-v8a">>, href |-> href]}

VariantPages ==
    UNION {{p \in [1..n -> UNION {RowsAt(i) : i \in 1..n}] :
               \A i \in 1..n : p[i] \in RowsAt(i)} : n \in 0..MaxRows}

InitVariant ==
    /\ MainIdle /\ sd = NoCall
    /\ sm = NoCall /\ mb = NoCall /\ dl = NoCall /\ par = NoCall
    /\ fa = NoCall /\ ov = NoCall /\ tv = NoCall
    /\ \E p \in VariantPages :
          vs = [pc |-> "scan", variants |-> p, i |-> 1, best_score |-> -1,
                target_variant_url |-> None, scores |-> <<>>,
                outcome |-> None, call |-> 1]

\* lines 188-210, mutated: the test of line 208 is score >= best_score
ScanRowLastWins ==
    /\ vs.pc = "scan" /\ vs.i <= Len(vs.variants)
    /\ LET row == vs.variants[vs.i]
       IN  IF RowSkipped(row)
           THEN vs' = [vs EXCEPT !.i = @ + 1,
                          !.scores = Append(@, [scored |-> FALSE, score |-> 0])]
           ELSE LET score == VariantScore(row)
                IN  vs' = [vs EXCEPT
                             !.i = @ + 1,
                             !.scores = Append(@, [scored |-> TRUE, score |-> score]),
                             !.best_score =
                                 IF score >= vs.best_score THEN score ELSE @,
                             !.target_variant_url =
                                 IF score >= vs.best_score THEN VariantUrl(row) ELSE @]
    /\ UNCHANGED <<sd, mainVars, appVars, fa, ov, tv, sm, mb, dl, par>>

\* lines 188-210: one iteration of the loop over the rows
ScanRow ==
    /\ vs.pc = "scan" /\ vs.i <= Len(vs.variants)
    /\ LET row == vs.variants[vs.i]
       IN  IF RowSkipped(row)
           THEN vs' = [vs EXCEPT !.i = @ + 1,
                          !.scores = Append(@, [scored |-> FALSE, score |-> 0])]
           ELSE LET score == VariantScore(row)
                IN  vs' = [vs EXCEPT
                             !.i = @ + 1,
                             !.scores = Append(@, [scored |-> TRUE, score |-> score]),
                             !.best_score =
                                 IF score > vs.best_score THEN score ELSE @,
                             !.target_variant_url =
                                 IF score > vs.best_score THEN VariantUrl(row) ELSE @]
    /\ UNCHANGED <<sd, mainVars, appVars, fa, ov, tv, sm, mb, dl, par>>

\* lines 212-216: after the loop
SelectVariant ==
    /\ vs.pc = "scan" /\ vs.i > Len(vs.variants)
    /\ vs' = [vs EXCEPT !.pc = "done",
                 !.outcome = IF vs.target_variant_url = None
                             THEN "NotFound" ELSE "Selected"]
    /\ UNCHANGED <<sd, mainVars, appVars, fa, ov, tv, sm, mb, dl, par>>

\* the release pages of a second call
SecondPages ==
    {<<[cells |-> <<"universal", "BUNDLE">>, href |-> "/variant-1"]>>,
     <<[cells |-> <<"x86", "APK">>, href |-> "/variant-1"]>>}

\* lines 179-186: scrape_apkmirror_full is called again, for another release
\* page; its locals start anew
ScanNextPage ==
    /\ vs.pc = "done" /\ vs.call = 1
    /\ \E p \in SecondPages :
          vs' = [pc |-> "scan", variants |-> p, i |-> 1, best_score |-> -1,
                 target_variant_url |-> None, scores |-> <<>>,
                 outcome |-> None, call |-> 2]
    /\ UNCHANGED <<sd, mainVars, appVars, fa, ov, tv, sm, mb, dl, par>>

NextVariant == ScanRow \/ SelectVariant \/ ScanNextPage

SpecVariant == InitVariant /\ [][NextVariant]_vars

\* the row the selected url belongs to
SelectedRows ==
    {i \in 1..Len(vs.variants) :
        /\ vs.variants[i].href # None
        /\ VariantUrl(vs.variants[i]) = vs.target_variant_url}

\* C6: a row whose architecture names a single non-target architecture (x86,
\* or armeabi-v7a alone) is never chosen as the target variant, whatever the
\* rows and their order, also when it is the only row of the page.
C6_NoWrongArchitecture ==
    vs.pc = "done" =>
        \A i \in SelectedRows :
            vs.variants[i].cells[1] \notin {"x86", "armeabi-v7a"}

\* C7: a row tagged x86 alone scores below zero whatever its format cell adds,
\* and when it is the only row the selection yields no variant (NotFound).
C7_X86Disqualified ==
    vs.pc \in {"scan", "done"} =>
        /\ \A i \in 1..Len(vs.scores) :
               (vs.scores[i].scored /\ vs.variants[i].cells[1] = "x86") =>
                   vs.scores[i].score < 0
        /\ (vs.pc = "done" /\ Len(vs.variants) = 1
               /\ vs.variants[1].cells[1] = "x86") =>
               (vs.target_variant_url = None /\ vs.outcome = "NotFound")

\* the only row of the page is an x86 row with the APK format bonus: it was
\* scored -98 and nothing was selected
C7_Witness ==
    /\ vs.pc = "done" /\ Len(vs.variants) = 1
    /\ vs.variants[1].cells = <<"x86", "APK">>
    /\ vs.scores = <<[scored |-> TRUE, score |-> -98]>>
    /\ vs.outcome = "NotFound"

\* the rows of the page that were scored and not disqualified (a
\* disqualified row has a score below zero)
Qualified ==
    {i \in 1..Len(vs.scores) : vs.scores[i].scored /\ vs.scores[i].score >= 0}

\* C26: for every sequence of rows, the variant selected is the first row in
\* page order that has the greatest score among the rows not disqualified,
\* and none is selected when there is no such row; this holds for the page
\* of a second call as for the first, the best score starting anew.
C26_FirstOfMaxScore ==
    vs.pc = "done" =>
        IF Qualified = {} THEN vs.target_variant_url = None
        ELSE \E i \in Qualified :
                /\ vs.target_variant_url = VariantUrl(vs.variants[i])
                /\ \A j \in Qualified :
                       /\ vs.scores[j].score <= vs.scores[i].score
                       /\ vs.scores[j].score = vs.scores[i].score => i <= j

\* two arm64-v8a APK rows share the greatest score and the first of them
\* was selected
C26_Witness ==
    /\ vs.pc = "done" /\ Len(vs.variants) = 2
    /\ vs.scores = <<[scored |-> TRUE, score |-> 12],
                     [scored |-> TRUE, score |-> 12]>>
    /\ vs.target_variant_url = "https://www.apkmirror.com/variant-1"

-----------------------------------------------------------------------------
(* build_from_repo.main and patch_app: a batch run. *)

\* lines 14-39: the keys of SOURCES
SOURCES == {"revanced", "inotia00", "anddea", "lisouseinaikyrios"}

\* lines 41-47: the keys of PKG_MAP in order, and the map
PKG_KEYS == <<"youtube", "yt-music", "reddit", "twitter", "spotify">>
PKG_MAP ==
    ("youtube" :> "com.google.android.youtube")
    @@ ("yt-music" :> "com.google.android.apps.youtube.music")
    @@ ("reddit" :> "com.reddit.frontpage")
    @@ ("twitter" :> "com.twitter.android")
    @@ ("spotify" :> "com.spotify.music")

\* the i-th element of a set of indices, in increasing order
NthOf(S, k) == CHOOSE i \in S : Cardinality({j \in S : j < i}) = k - 1

\* lines 382-385
AppsToProcess(input) ==
    IF Lower(input) = "all" THEN PKG_KEYS
    ELSE LET xs == Split(input, ",")
             keep == {i \in 1..Len(xs) : Strip(xs[i]) # ""}
         IN  [k \in 1..Cardinality(keep) |-> Strip(xs[NthOf(keep, k)])]

\* lines 115-142.  cliAsset, patchesAsset: get_asset found the asset in the
\* latest release.  The result of download_file (lines 134, 140) is not read.
fetch_tools(source_key, cliAsset, patchesAsset) ==
    IF source_key \notin SOURCES THEN [raised |-> TRUE]   \* config is None
    ELSE IF ~cliAsset THEN [raised |-> TRUE]              \* line 131
    ELSE IF ~patchesAsset THEN [raised |-> TRUE]          \* line 137
    ELSE [raised |-> FALSE]

\* the environment of the runs of the model
PatchSources == {None, "revanced", "nosuch"}
AppsInputs == {"ALL", "youtube", "youtube,reddit", "tiktok, youtube", ""}
VersionInputs == {"auto", "19.16.39", "youtube=1.0,reddit=auto"}
Stores == {<<>>, <<"youtube-v1.0.apk">>,
           <<"youtube-v19.16.39.apkm", "reddit-v19.16.39.apk">>}

\* what the list-versions subprocess can answer
ReportTexts ==
    {JoinLines(<<"Package name: " \o YoutubePkg, "  1.0", "  2.0">>),
     JoinLines(<<"Package name: " \o YoutubePkg, "  19.16.9", "  19.16.39",
                 "Package name: " \o RedditPkg, "  19.16.39">>),
     JoinLines(<<"Package name: " \o RedditPkg, "  19.16.39">>)}

CliOutcomes ==
    {[ok |-> FALSE, output |-> ""]}
    \cup {[ok |-> TRUE, output |-> t] : t \in ReportTexts}

NoCalls == [cli |-> 0, download |-> 0, normalize |-> 0, patch |-> 0]

Init ==
    /\ pc = "start"
    /\ patch_source \in PatchSources
    /\ apps_input \in AppsInputs
    /\ manual_version_input \in VersionInputs
    /\ store \in Stores
    /\ apps_to_process = <<>> /\ idx = 0 /\ success_count = 0
    /\ exitCode = -1 /\ exitAt = None /\ summaryPrinted = FALSE
    /\ tools = [cli |-> FALSE, patches |-> FALSE]
    /\ stage = "idle" /\ fail = None /\ app = None
    /\ app_version_setting = None /\ candidate_versions = <<>>
    /\ lookups = <<>> /\ selected_version = None /\ apk_filename = None
    /\ calls = NoCalls /\ results = <<>> /\ report = NoReport
    /\ patch_rc = -1
    /\ fa = NoCall /\ vs = NoCall /\ ov = NoCall /\ tv = NoCall
    /\ sm = NoCall /\ mb = NoCall /\ dl = NoCall /\ par = NoCall
    /\ sd = NoCall

harnessVars == <<fa, vs, ov, tv, sm, mb, dl, par, sd>>

\* lines 374-387
MainStart ==
    /\ pc = "start"
    /\ IF patch_source \in {None, ""}
       THEN /\ pc' = "exited" /\ exitCode' = 1 /\ exitAt' = "no_patch_source"
            /\ UNCHANGED apps_to_process
       ELSE /\ pc' = "fetch"
            /\ apps_to_process' = AppsToProcess(apps_input)
            /\ UNCHANGED <<exitCode, exitAt>>
    /\ UNCHANGED <<patch_source, apps_input, manual_version_input, idx,
                   success_count, summaryPrinted, tools, store, appVars,
                   harnessVars>>

\* lines 389-393.  onDisk: the file is in tools/ after the call (it was there
\* before, or download_file wrote it).
FetchTools ==
    /\ pc = "fetch"
    /\ \E cliAsset, patchesAsset, cliOnDisk, patchesOnDisk \in BOOLEAN :
          IF fetch_tools(patch_source, cliAsset, patchesAsset).raised
          THEN /\ pc' = "exited" /\ exitCode' = 1 /\ exitAt' = "tool_fetch"
               /\ UNCHANGED tools
          ELSE /\ pc' = "loop"
               /\ tools' = [cli |-> cliOnDisk, patches |-> patchesOnDisk]
               /\ UNCHANGED <<exitCode, exitAt>>
    /\ UNCHANGED <<patch_source, apps_input, manual_version_input,
                   apps_to_process, idx, success_count, summaryPrinted, store,
                   appVars, harnessVars>>

\* the java subprocess can exit with code 0 only if its jar and the patch file
\* are on disk
ToolsUsable == tools.cli /\ tools.patches

\* patch_app is not running
AppEnded == stage \in {"idle", "succeeded", "failed"}

\* lines 369-371, mutated: the exception leaves patch_app and ends main
ExceptionEscapes(a, cause) ==
    /\ stage' = "failed" /\ fail' = cause
    /\ pc' = "exited" /\ exitCode' = 1 /\ exitAt' = "uncaught"
    /\ UNCHANGED <<results, success_count>>

\* lines 369-371 (and the plain return False of lines 312 and 338): patch_app
\* returns False to the loop of main
ReturnFalse(a, cause) ==
    /\ stage' = "failed" /\ fail' = cause
    /\ results' = Append(results, [app |-> a, ok |-> FALSE, fail |-> cause])
    /\ UNCHANGED <<pc, exitCode, exitAt, success_count>>

\* the step goes on inside patch_app
Continue(next) ==
    /\ stage' = next /\ fail' = None
    /\ UNCHANGED <<results, pc, exitCode, exitAt, success_count>>

\* lines 396-399 and 309-312: the loop of main takes the next application and
\* calls patch_app, which looks the key up in PKG_MAP
StartApp ==
    /\ pc = "loop" /\ AppEnded /\ idx < Len(apps_to_process)
    /\ idx' = idx + 1
    /\ app' = apps_to_process[idx + 1]
    /\ app_version_setting' = None /\ candidate_versions' = <<>>
    /\ lookups' = <<>> /\ selected_version' = None /\ apk_filename' = None
    /\ calls' = NoCalls /\ report' = NoReport /\ patch_rc' = -1
    /\ IF app' \notin DOMAIN PKG_MAP
       THEN ReturnFalse(apps_to_process[idx + 1], "unknown_app")
       ELSE Continue("resolve")
    /\ UNCHANGED <<patch_source, apps_input, manual_version_input,
                   apps_to_process, summaryPrinted, tools, store, harnessVars>>

mainEnv == <<patch_source, apps_input, manual_version_input, apps_to_process,
             idx, summaryPrinted, tools, store>>

\* lines 315-318: the override of this application, then its candidate list
ResolveVersion ==
    /\ pc = "loop" /\ stage = "resolve"
    /\ \E cli \in CliOutcomes :
          /\ cli.ok => ToolsUsable
          /\ LET setting == parse_version_override(manual_version_input, app)
                 r == get_target_versions(cli, PKG_MAP[app], setting)
             IN  /\ app_version_setting' = setting
                 /\ calls' = [calls EXCEPT !.cli = IF r.invoked THEN 1 ELSE 0]
                 /\ report' = (IF r.invoked THEN cli ELSE NoReport)
                 /\ candidate_versions' = r.versions
                 /\ IF r.raised THEN ReturnFalse(app, "version")
                    ELSE Continue("locate")
    /\ UNCHANGED <<app, lookups, selected_version, apk_filename, patch_rc,
                   mainEnv, harnessVars>>

\* line 325, mutated: the candidates are taken from the end of the list
NextCandidateReversed ==
    candidate_versions[Len(candidate_versions) - Len(lookups)]

\* line 325: the candidate of this iteration of the for loop
NextCandidate == candidate_versions[Len(lookups) + 1]

\* lines 325-334: one iteration of the loop over the candidates.  releaseOk:
\* get_latest_github_release answered.
Locate ==
    /\ pc = "loop" /\ stage = "locate"
    /\ Len(lookups) < Len(candidate_versions)
    /\ \E releaseOk \in BOOLEAN :
          LET ver == NextCandidate
              r == find_apk_in_release([ok |-> releaseOk, assets |-> store],
                                       app, ver)
          IN  /\ lookups' = Append(lookups, ver)
              /\ IF r.raised
                 THEN /\ ReturnFalse(app, "release")
                      /\ UNCHANGED <<selected_version, apk_filename>>
                 ELSE IF r.url # None
                 THEN /\ selected_version' = ver /\ apk_filename' = r.name
                      /\ Continue("download")
                 ELSE /\ Continue("locate")
                      /\ UNCHANGED <<selected_version, apk_filename>>
    /\ UNCHANGED patch_rc
    /\ UNCHANGED <<app, app_version_setting, candidate_versions, calls, report,
                   mainEnv, harnessVars>>

\* lines 336-338: the loop ended and no candidate was found
NotFound ==
    /\ pc = "loop" /\ stage = "locate"
    /\ Len(lookups) = Len(candidate_versions)
    /\ ReturnFalse(app, "not_found")
    /\ UNCHANGED patch_rc
    /\ UNCHANGED <<app, app_version_setting, candidate_versions, lookups, report,
                   selected_version, apk_filename, calls, mainEnv, harnessVars>>

\* lines 340-343, mutated: a failed download sends patch_app back to the loop
\* over the candidates
DownloadFallsBack ==
    /\ pc = "loop" /\ stage = "download"
    /\ calls' = [calls EXCEPT !.download = @ + 1]
    /\ \E ok \in BOOLEAN :
          IF ok THEN Continue("normalize") ELSE Continue("locate")
    /\ UNCHANGED patch_rc
    /\ UNCHANGED <<app, app_version_setting, candidate_versions, lookups, report,
                   selected_version, apk_filename, mainEnv, harnessVars>>

\* lines 340-343.  ok: what download_file returned.
Download ==
    /\ pc = "loop" /\ stage = "download"
    /\ calls' = [calls EXCEPT !.download = @ + 1]
    /\ \E ok \in BOOLEAN :
          IF ok THEN Continue("normalize") ELSE ReturnFalse(app, "download")
    /\ UNCHANGED patch_rc
    /\ UNCHANGED <<app, app_version_setting, candidate_versions, lookups, report,
                   selected_version, apk_filename, mainEnv, harnessVars>>

\* line 346
IsBundleName(name) == \E e \in {".apkm", ".apks", ".xapk"} : EndsWith(name, e)

\* lines 345-350.  For a bundle: fetch_apkeditor and merge_bundle, each of
\* which can raise; otherwise strip_monolithic_apk, whose rewrite can raise.
Normalize ==
    /\ pc = "loop" /\ stage = "normalize"
    /\ calls' = [calls EXCEPT !.normalize = @ + 1]
    /\ \E editorOk, done \in BOOLEAN :
          IF IsBundleName("downloads/" \o apk_filename) /\ ~editorOk
          THEN ReturnFalse(app, "apkeditor")
          ELSE IF ~done THEN ReturnFalse(app, "normalize")
          ELSE Continue("patch")
    /\ UNCHANGED patch_rc
    /\ UNCHANGED <<app, app_version_setting, candidate_versions, lookups, report,
                   selected_version, apk_filename, mainEnv, harnessVars>>

\* lines 352-367, mutated: after a non-zero exit code the patch subprocess
\* is run again
PatchRetries ==
    /\ pc = "loop" /\ stage = "patch"
    /\ calls' = [calls EXCEPT !.patch = @ + 1]
    /\ \E rc \in {0, 1} :
          /\ rc = 0 => ToolsUsable
          /\ patch_rc' = rc
          /\ IF rc = 0
             THEN /\ stage' = "succeeded" /\ fail' = None
                  /\ results' = Append(results, [app |-> app, ok |-> TRUE, fail |-> None])
                  /\ success_count' = success_count + 1
                  /\ UNCHANGED <<pc, exitCode, exitAt>>
             ELSE Continue("patch")
    /\ UNCHANGED <<app, app_version_setting, candidate_versions, lookups, report,
                   selected_version, apk_filename, mainEnv, harnessVars>>

\* lines 352-367 and 399-400.  rc: the exit code of the patch subprocess.
Patch ==
    /\ pc = "loop" /\ stage = "patch"
    /\ calls' = [calls EXCEPT !.patch = @ + 1]
    /\ \E rc \in {0, 1} :
          /\ rc = 0 => ToolsUsable
          /\ patch_rc' = rc
          /\ IF rc = 0
             THEN /\ stage' = "succeeded" /\ fail' = None
                  /\ results' = Append(results, [app |-> app, ok |-> TRUE, fail |-> None])
                  /\ success_count' = success_count + 1
                  /\ UNCHANGED <<pc, exitCode, exitAt>>
             ELSE ReturnFalse(app, "patch")
    /\ UNCHANGED <<app, app_version_setting, candidate_versions, lookups, report,
                   selected_version, apk_filename, mainEnv, harnessVars>>

\* lines 402-412, mutated: the summary is printed after GITHUB_ENV is written
MainFinishLateSummary ==
    /\ pc = "loop" /\ AppEnded /\ idx = Len(apps_to_process)
    /\ \E githubEnv \in BOOLEAN :
          /\ summaryPrinted' = githubEnv
          /\ IF ~githubEnv
             THEN exitCode' = 1 /\ exitAt' = "github_env"
             ELSE /\ exitCode' = (IF success_count = 0 THEN 1 ELSE 0)
                  /\ exitAt' = "end"
    /\ pc' = "exited"
    /\ UNCHANGED <<patch_source, apps_input, manual_version_input,
                   apps_to_process, idx, success_count, tools, store, appVars,
                   harnessVars>>

\* lines 402-412: the summary, the write to the file GITHUB_ENV names, the
\* exit code.  githubEnv: the variable is set; os.environ['GITHUB_ENV'] raises
\* KeyError otherwise, and the interpreter exits with code 1.
MainFinish ==
    /\ pc = "loop" /\ AppEnded /\ idx = Len(apps_to_process)
    /\ summaryPrinted' = TRUE
    /\ \E githubEnv \in BOOLEAN :
          IF ~githubEnv
          THEN exitCode' = 1 /\ exitAt' = "github_env"
          ELSE /\ exitCode' = (IF success_count = 0 THEN 1 ELSE 0)
               /\ exitAt' = "end"
    /\ pc' = "exited"
    /\ UNCHANGED <<patch_source, apps_input, manual_version_input,
                   apps_to_process, idx, success_count, tools, store, appVars,
                   harnessVars>>

Next ==
    \/ MainStart
    \/ FetchTools
    \/ StartApp
    \/ ResolveVersion
    \/ Locate
    \/ NotFound
    \/ Download
    \/ Normalize
    \/ Patch
    \/ MainFinish

Spec == Init /\ [][Next]_vars

-----------------------------------------------------------------------------
(* Properties of the batch run. *)

\* the store lists an asset that find_apk_in_release accepts for (a, v)
HasAsset(a, v) ==
    \E i \in 1..Len(store) : AssetMatches(store[i], TargetBase(a, v))

\* patch_app got past the loop over the candidates with an asset
Located ==
    \/ stage \in {"download", "normalize", "patch", "succeeded"}
    \/ stage = "failed" /\ fail \in {"download", "apkeditor", "normalize", "patch"}

\* C1: with override Auto the candidates are looked up in list order
\* (descending version); a NotFound advances to the next candidate, the first
\* candidate with a matching asset is selected and none is looked up after it;
\* if no candidate has an asset the application ends FAILED with no download,
\* normalization or patch call.  For candidates [2.0, 1.0] and a store holding
\* only the asset of 1.0, a successful application resolved version 1.0 after
\* a NotFound on 2.0.
C1_FallbackInOrder ==
    (app_version_setting = "auto" /\ stage \notin {"idle", "resolve"}) =>
        /\ Len(lookups) <= Len(candidate_versions)
        /\ \A k \in 1..Len(lookups) : lookups[k] = candidate_versions[k]
        /\ \A i, j \in 1..Len(candidate_versions) :
               i < j => ~NumericallyLess(VersionNumbers(candidate_versions[i]),
                                         VersionNumbers(candidate_versions[j]))
        /\ \A k \in 1..(Len(lookups) - 1) : ~HasAsset(app, lookups[k])
        /\ Located <=> selected_version # None
        /\ Located =>
               /\ selected_version = lookups[Len(lookups)]
               /\ HasAsset(app, selected_version)
        /\ (stage = "locate" /\ Len(lookups) > 0) =>
               ~HasAsset(app, lookups[Len(lookups)])
        /\ (stage = "failed" /\ fail = "not_found") =>
               /\ lookups = candidate_versions
               /\ \A k \in 1..Len(lookups) : ~HasAsset(app, lookups[k])
        /\ ~Located =>
               calls.download = 0 /\ calls.normalize = 0 /\ calls.patch = 0
        /\ (candidate_versions = <<"2.0", "1.0">> /\ stage = "succeeded"
               /\ store = <<app \o "-v1.0.apk">>) =>
               (selected_version = "1.0" /\ lookups = <<"2.0", "1.0">>)

\* the report lists 2.0 and 1.0, the store holds only the asset of 1.0: the
\* application succeeded with version 1.0 after a lookup of 2.0
C1_Witness ==
    /\ app = "youtube" /\ app_version_setting = "auto"
    /\ candidate_versions = <<"2.0", "1.0">>
    /\ store = <<"youtube-v1.0.apk">>
    /\ lookups = <<"2.0", "1.0">> /\ selected_version = "1.0"
    /\ stage = "succeeded" /\ results[idx].ok

\* C3: a failure of one application (unknown key, version resolution,
\* artifact not found, download, merge/strip, patch tool) makes patch_app
\* return False for that application only; the loop of main goes on and
\* processes every application of the batch exactly once, in order.
C3_FailureStaysLocal ==
    /\ \A i \in 1..Len(results) :
           /\ results[i].app = apps_to_process[i]
           /\ results[i].ok <=> results[i].fail = None
    /\ Len(results) = (IF AppEnded THEN idx ELSE idx - 1)
    /\ success_count = Cardinality({i \in 1..Len(results) : results[i].ok})
    /\ stage = "failed" =>
           /\ results[idx] = [app |-> app, ok |-> FALSE, fail |-> fail]
           /\ exitAt \in {None, "end", "github_env"}
    /\ (pc = "exited" /\ exitAt \notin {"no_patch_source", "tool_fetch"}) =>
           /\ exitAt \in {"end", "github_env"}
           /\ Len(results) = Len(apps_to_process)

\* the patch tool failed for the first application of a batch of two, and the
\* second one was processed and succeeded
C3_Witness ==
    /\ pc = "exited"
    /\ results = <<[app |-> "youtube", ok |-> FALSE, fail |-> "patch"],
                   [app |-> "reddit", ok |-> TRUE, fail |-> None]>>

\* C4: the exit code of the process is 0 if and only if at least one
\* application was patched successfully.
C4_ExitZeroIffSuccess ==
    pc = "exited" =>
        (exitCode = 0 <=> \E i \in 1..Len(results) : results[i].ok)

\* C5, as claimed: on every run of main the summary count is printed before
\* the process exits.
C5_SummaryAlways == pc = "exited" => summaryPrinted

\* C5, amended: the summary count is printed before the process exits on
\* every run that gets past the PATCH_SOURCE test and the tool fetch (also
\* when writing to GITHUB_ENV fails afterwards), and on no other run.
C5_SummaryAfterLoop ==
    pc = "exited" =>
        (summaryPrinted <=> exitAt \notin {"no_patch_source", "tool_fetch"})

\* a run printed its summary and then ended on the missing GITHUB_ENV
C5_Witness ==
    /\ pc = "exited" /\ exitAt = "github_env" /\ summaryPrinted
    /\ Len(results) = 2

\* the report has a section for the package
InReport(text, package_name) ==
    LET lines == SplitLines(text)
    IN  \E i \in 1..Len(lines) : PkgMatch(Strip(lines[i])) = package_name

\* patch_app ran the list-versions tool for an application without override
\* and the report it got has no section for the application's package
UnknownPackage ==
    /\ app \in DOMAIN PKG_MAP /\ stage \notin {"idle", "resolve"}
    /\ app_version_setting = "auto"
    /\ report.ok /\ ~InReport(report.output, PKG_MAP[app])

\* C12: when the package of the application has no section in the
\* compatibility report and no explicit version applies, patch_app returns
\* False at the version resolution: no artifact lookup, no download, no
\* normalization and no patch invocation is made for the application.
C12_UnknownPackageStops ==
    UnknownPackage =>
        /\ stage = "failed" /\ fail = "version"
        /\ results[idx] = [app |-> app, ok |-> FALSE, fail |-> "version"]
        /\ lookups = <<>> /\ selected_version = None
        /\ calls.download = 0 /\ calls.normalize = 0 /\ calls.patch = 0

\* youtube, without override, was resolved against a report that lists
\* version 19.16.39 for reddit only, while the store holds an asset of that
\* version, and the run went on to its end
C12_Witness ==
    /\ UnknownPackage /\ app = "youtube" /\ pc = "exited"
    /\ report.output = JoinLines(<<"Package name: " \o RedditPkg, "  19.16.39">>)
    /\ store = <<"youtube-v19.16.39.apkm", "reddit-v19.16.39.apk">>
    /\ stage = "failed"

\* C16: for each application the patch tool is run at most once, and only
\* after an artifact was located, the download returned True and the
\* normalization returned; patch_app returns True exactly when that one run
\* exits with code 0.
C16_PatchOnceAfterStages ==
    /\ calls.patch <= 1
    /\ (stage = "patch" \/ calls.patch = 1) =>
           /\ selected_version # None /\ HasAsset(app, selected_version)
           /\ calls.download = 1 /\ calls.normalize = 1
           /\ fail \in {None, "patch"}
    /\ calls.patch = 1 <=> patch_rc \in {0, 1}
    /\ (AppEnded /\ idx > 0) =>
           /\ results[idx].app = app
           /\ results[idx].ok <=> (calls.patch = 1 /\ patch_rc = 0)
           /\ stage = "succeeded" <=> results[idx].ok

\* the patch tool ran once for youtube and exited with code 1; it ran once
\* for reddit and exited with code 0
C16_Witness ==
    /\ Len(results) = 2 /\ ~results[1].ok /\ results[1].fail = "patch"
    /\ app = "reddit" /\ calls.patch = 1 /\ patch_rc = 0
    /\ stage = "succeeded" /\ results[2].ok

\* the place of a stage on the way through patch_app
StageRank(st) ==
    CASE st = "download" -> 1
      [] st = "normalize" -> 2
      [] st = "patch" -> 3
      [] st \in {"succeeded", "failed"} -> 4
      [] OTHER -> 0

\* C17: once find_apk_in_release has returned an asset for a candidate, every
\* further step of the same application leaves the lookups as they are (no
\* other candidate is looked up), moves forward through download,
\* normalization and patch without running a stage again, and a failure of
\* any of them ends the application FAILED with a False result.
C17_NoRetryAfterLocate ==
    [][(selected_version # None /\ idx' = idx) =>
          /\ lookups' = lookups /\ selected_version' = selected_version
          /\ stage' # stage => StageRank(stage') > StageRank(stage)
          /\ stage \in {"succeeded", "failed"} => stage' = stage
          /\ \A c \in {"download", "normalize", "patch"} :
                 calls'[c] <= 1 /\ calls'[c] >= calls[c]
          /\ (stage # "failed" /\ fail' # None) =>
                 /\ stage' = "failed"
                 /\ results' = Append(results, [app |-> app, ok |-> FALSE,
                                                fail |-> fail'])]_vars

\* the merge of the bundle located for 19.16.39 failed: the application ended
\* FAILED with the candidate 19.16.9 never looked up, and the run went on to
\* its end
C17_Witness ==
    /\ pc = "exited" /\ app = "youtube"
    /\ candidate_versions = <<"19.16.39", "19.16.9">>
    /\ lookups = <<"19.16.39">> /\ selected_version = "19.16.39"
    /\ stage = "failed" /\ fail = "normalize"
    /\ calls.download = 1 /\ calls.normalize = 1 /\ calls.patch = 0

\* C19: when the CLI jar or the patch-set file could not be obtained (its
\* asset is missing from the release, or its download failed and the file is
\* not in tools/), main ends at the tool fetch before any application is
\* processed: no application is started without both files.
C19_ToolFetchFailureAborts ==
    /\ idx > 0 => ToolsUsable
    /\ exitAt = "tool_fetch" => (idx = 0 /\ results = <<>>)

-----------------------------------------------------------------------------
(* build_from_repo.strip_monolithic_apk on every small package. *)

\* Most entries of a package.
MaxEntries == 3

\* str.replace: every occurrence of old, from the left
RECURSIVE Replace(_, _, _)
Replace(s, old, new) ==
    LET at == {i \in 1..(Len(s) - Len(old) + 1) :
                  SubSeq(s, i, i + Len(old) - 1) = old}
    IN  IF at = {} THEN s
        ELSE LET i == CHOOSE k \in at : \A j \in at : k <= j
             IN  SubSeq(s, 1, i - 1) \o new
                 \o Replace(SubSeq(s, i + Len(old), Len(s)), old, new)

\* lines 220-224: the two flags after the loop over the names
HasArm64(entries) ==
    \E i \in 1..Len(entries) : Contains(entries[i].name, "lib/arm64-v8a")

HasOthers(entries) ==
    \E i \in 1..Len(entries) :
        /\ ~Contains(entries[i].name, "lib/arm64-v8a")
        /\ \/ Contains(entries[i].name, "lib/x86")
           \/ Contains(entries[i].name, "lib/armeabi-v7a")

\* line 243: the entry is copied
KeepEntry(name) ==
    ~StartsWith(name, "lib/") \/ Contains(name, "lib/arm64-v8a/")

\* line 244, zin.read(name): the data of the last entry of that name
ReadEntry(entries, name) ==
    LET at == {i \in 1..Len(entries) : entries[i].name = name}
    IN  entries[CHOOSE i \in at : \A j \in at : j <= i].data

\* lines 241-245: the entries written to the stripped package, in order
RECURSIVE CopyEntries(_, _)
CopyEntries(entries, i) ==
    IF i > Len(entries) THEN <<>>
    ELSE IF KeepEntry(entries[i].name)
         THEN <<[name |-> entries[i].name,
                 data |-> ReadEntry(entries, entries[i].name)]>>
              \o CopyEntries(entries, i + 1)
         ELSE CopyEntries(entries, i + 1)

\* lines 213-248.  readable: the file opens as a zip archive.  The result is
\* the returned path, whether a file was written there, and the entries of
\* the package at that path.
strip_monolithic_apk(apk_path, readable, entries) ==
    IF ~readable \/ ~HasArm64(entries) \/ ~HasOthers(entries)
    THEN [path |-> apk_path, written |-> FALSE, entries |-> entries]
    ELSE [path |-> Replace(apk_path, ".apk", "_arm64.apk"), written |-> TRUE,
          entries |-> CopyEntries(entries, 1)]

\* entry names and data of the packages of the model
EntryNames == {"lib/arm64-v8a/libfoo.so", "lib/x86/libfoo.so",
               "lib/armeabi-v7a/libfoo.so", "lib/armeabi/libfoo.so",
               "classes.dex", "assets/lib/arm64-v8a/model.bin"}
EntryData == {"d1", "d2"}

\* the packages: lists of entries with distinct names
Packages ==
    {es \in SeqsUpTo([name : EntryNames, data : EntryData], MaxEntries) :
        \A i, j \in 1..Len(es) : es[i].name = es[j].name => i = j}

InitStrip ==
    /\ MainIdle /\ sd = NoCall
    /\ fa = NoCall /\ vs = NoCall /\ ov = NoCall /\ tv = NoCall
    /\ mb = NoCall /\ dl = NoCall /\ par = NoCall
    /\ \E es \in Packages, readable \in BOOLEAN :
          /\ ~readable => es = <<>>
          /\ sm = [pc |-> "call", apk_path |-> "downloads/youtube-v1.0.apk",
                   readable |-> readable, entries |-> es,
                   result |-> [path |-> None, written |-> FALSE,
                               entries |-> <<>>]]

StripMonolithicApk ==
    /\ sm.pc = "call"
    /\ sm' = [sm EXCEPT !.pc = "done",
                 !.result = strip_monolithic_apk(sm.apk_path, sm.readable,
                                                 sm.entries)]
    /\ UNCHANGED <<sd, mainVars, appVars, fa, vs, ov, tv, mb, dl, par>>

NextStrip == StripMonolithicApk

SpecStrip == InitStrip /\ [][NextStrip]_vars

\* a native library entry, and one of the target architecture
IsLibEntry(name) == StartsWith(name, "lib/")
IsTargetLib(name) == StartsWith(name, "lib/arm64-v8a/")

\* the entries of a package, as a set
EntrySet(entries) == {entries[i] : i \in 1..Len(entries)}

\* C14: for every monolithic package that holds arm64-v8a library entries and
\* library entries of another architecture, the package strip_monolithic_apk
\* hands back holds no entry under lib/ outside lib/arm64-v8a/, every
\* arm64-v8a library entry and every non-library entry of the source with the
\* same data, and no entry the source does not hold.
C14_StripLeavesOnlyTarget ==
    LET src == EntrySet(sm.entries)
        out == EntrySet(sm.result.entries)
    IN  (/\ sm.pc = "done" /\ sm.readable
         /\ \E e \in src : IsTargetLib(e.name)
         /\ \E e \in src : IsLibEntry(e.name) /\ ~IsTargetLib(e.name)) =>
            /\ \A e \in out : IsLibEntry(e.name) => IsTargetLib(e.name)
            /\ \A e \in src : IsTargetLib(e.name) => e \in out
            /\ \A e \in src : ~IsLibEntry(e.name) => e \in out
            /\ out \subseteq src

\* C24: strip_monolithic_apk writes a stripped copy whenever the package
\* holds arm64-v8a libraries together with libraries of any other
\* architecture, and returns the input path, writing no file, whenever the
\* package holds no library of another architecture (only arm64-v8a
\* libraries, or no native library at all).
C24_StripIffOtherArchitecture ==
    LET src == EntrySet(sm.entries)
        target == \E e \in src : IsTargetLib(e.name)
        other == \E e \in src : IsLibEntry(e.name) /\ ~IsTargetLib(e.name)
    IN  (sm.pc = "done" /\ sm.readable) =>
            /\ (target /\ other) =>
                   /\ sm.result.written
                   /\ sm.result.path = "downloads/youtube-v1.0_arm64.apk"
            /\ ~other =>
                   (~sm.result.written /\ sm.result.path = sm.apk_path)

-----------------------------------------------------------------------------
(* build_from_repo.merge_bundle and build_logic.process_apk on every small *)
(* bundle.                                                                  *)

\* Most files in a bundle.
MaxMembers == 3

\* os.path.basename
Basename(path) ==
    LET at == {i \in 1..Len(path) : Char(path, i) = "/"}
    IN  IF at = {} THEN path
        ELSE SubSeq(path, (CHOOSE i \in at : \A j \in at : j <= i) + 1,
                    Len(path))

\* build_from_repo.py line 252 and build_logic.py line 293
MergeExtractDir(bundle_path) == "extracted_" \o Basename(bundle_path)
ProcessExtractDir(apk_path) == "extracted_apk"

\* build_from_repo.py lines 265-269: the file is removed from the directory
MergeRemoves(f) ==
    /\ EndsWith(f, ".apk")
    /\ Contains(f, "x86") \/ Contains(f, "armeabi") \/ Contains(f, "mips")
    /\ ~Contains(f, "arm64")

\* build_from_repo.py lines 271-273
OutputMerged(bundle_path) ==
    LET o == Replace(Replace(Replace(bundle_path, ".apkm", "_arm64.apk"),
                             ".apks", "_arm64.apk"), ".xapk", "_arm64.apk")
    IN  IF o = bundle_path THEN bundle_path \o "_merged_arm64.apk" ELSE o

\* the package members among the files of a directory
ApkMembers(names) == {f \in names : EndsWith(f, ".apk")}

NoOutcome ==
    [raised |-> FALSE, exited |-> FALSE, merge_invoked |-> FALSE,
     merge_input |-> {}, files |-> {}]

\* build_from_repo.py lines 250-288.  valid: the file is a zip archive; names:
\* the files it holds; mergeOk: the merge subprocess exits with code 0.
\* merge_input is the content of the directory the merge tool is run on,
\* files what the caller hands to the patch tool.
merge_bundle(bundle_path, valid, names, mergeOk) ==
    IF ~valid THEN [NoOutcome EXCEPT !.raised = TRUE]
    ELSE LET left == {f \in names : ~MergeRemoves(f)}
         IN  [NoOutcome EXCEPT !.merge_invoked = TRUE, !.merge_input = left,
                               !.raised = ~mergeOk,
                               !.files = IF mergeOk
                                         THEN {OutputMerged(bundle_path)}
                                         ELSE {}]

\* build_logic.py line 314: the member is skipped
ProcessSkips(f) == Contains(f, "x86") \/ Contains(f, "armeabi_v7a")

\* build_logic.py lines 267-325.  exists: the path names a file; valid:
\* zipfile.is_zipfile.  error() ends the process with code 1.
process_apk(apk_path, exists, valid, names) ==
    IF ~exists THEN [NoOutcome EXCEPT !.exited = TRUE]
    ELSE IF ~(valid /\ \E f \in names : EndsWith(f, ".apk"))
    THEN [NoOutcome EXCEPT !.files = {apk_path}]
    ELSE LET files_to_patch ==
                 {ProcessExtractDir(apk_path) \o "/" \o f :
                     f \in {g \in ApkMembers(names) : ~ProcessSkips(g)}}
         IN  IF files_to_patch = {} THEN [NoOutcome EXCEPT !.exited = TRUE]
             ELSE [NoOutcome EXCEPT !.files = files_to_patch]

\* the files of the bundles of the model
MemberNames == {"base.apk", "split_config.arm64_v8a.apk",
                "split_config.x86.apk", "split_config.armeabi_v7a.apk",
                "split_config.mips.apk", "split_config.xxhdpi.apk",
                "info.json"}
BundlePaths == {"downloads/youtube-v1.0.apkm", "downloads/reddit-v1.0.xapk"}

Bundles == {ns \in SUBSET MemberNames : Cardinality(ns) <= MaxMembers}

InitBundle ==
    /\ MainIdle /\ sd = NoCall
    /\ fa = NoCall /\ vs = NoCall /\ ov = NoCall /\ tv = NoCall
    /\ sm = NoCall /\ dl = NoCall /\ par = NoCall
    /\ \E fn \in {"merge_bundle", "process_apk"}, path \in BundlePaths,
          ns \in Bundles, exists, valid \in BOOLEAN :
          /\ ~exists => ~valid
          /\ ~valid => ns = {}
          /\ fn = "merge_bundle" => exists
          /\ mb = [pc |-> "call", fn |-> fn, path |-> path, exists |-> exists,
                   valid |-> valid, names |-> ns, result |-> NoOutcome]

MergeBundle ==
    /\ mb.pc = "call" /\ mb.fn = "merge_bundle"
    /\ \E mergeOk \in BOOLEAN :
          mb' = [mb EXCEPT !.pc = "done",
                    !.result = merge_bundle(mb.path, mb.valid, mb.names, mergeOk)]
    /\ UNCHANGED <<sd, mainVars, appVars, fa, vs, ov, tv, sm, dl, par>>

ProcessApk ==
    /\ mb.pc = "call" /\ mb.fn = "process_apk"
    /\ mb' = [mb EXCEPT !.pc = "done",
                 !.result = process_apk(mb.path, mb.exists, mb.valid, mb.names)]
    /\ UNCHANGED <<sd, mainVars, appVars, fa, vs, ov, tv, sm, dl, par>>

NextBundle == MergeBundle \/ ProcessApk

SpecBundle == InitBundle /\ [][NextBundle]_vars

\* the bundle was extracted and the filter of the function left no package
\* member
NoMemberLeft ==
    /\ mb.pc = "done" /\ mb.valid
    /\ IF mb.fn = "merge_bundle"
       THEN ApkMembers({f \in mb.names : ~MergeRemoves(f)}) = {}
       ELSE /\ ApkMembers(mb.names) # {}
            /\ {f \in ApkMembers(mb.names) : ~ProcessSkips(f)} = {}

\* C15: in merge_bundle and in process_apk, when the architecture filter
\* leaves no package member of the extracted bundle, the normalization fails:
\* the merge tool is not run on the empty member set and no file is handed
\* to the patch tool.
C15_EmptyBundleFails ==
    NoMemberLeft =>
        /\ mb.result.raised \/ mb.result.exited
        /\ ~mb.result.merge_invoked
        /\ mb.result.files = {}

\* the file name carries the token of an architecture other than arm64
SignalsNonTarget(f) ==
    /\ \E t \in {"x86", "armeabi", "mips"} : Contains(f, t)
    /\ ~Contains(f, "arm64")

\* the package members the filter of the function has left
Survivors ==
    IF mb.fn = "merge_bundle" THEN ApkMembers(mb.result.merge_input)
    ELSE {Basename(p) : p \in mb.result.files}

\* C25: after the filter of merge_bundle and of process_apk, no surviving
\* member's name signals a non-target architecture, and every member whose
\* name signals arm64 or no architecture (base, density and language splits)
\* is still there: the survivors are exactly those members.
C25_FilterKeepsExactlyTarget ==
    (/\ mb.pc = "done" /\ mb.valid /\ ApkMembers(mb.names) # {}
     /\ mb.fn = "merge_bundle" => mb.result.merge_invoked) =>
        Survivors = {f \in ApkMembers(mb.names) : ~SignalsNonTarget(f)}

-----------------------------------------------------------------------------
(* build_from_repo.download_file against every answer of the servers. *)

\* line 79: the status codes download_file takes for a redirect
ManualRedirects == {301, 302, 307, 308}

\* Response.raise_for_status raises for the 4xx and 5xx codes
RaisesForStatus(status) == status >= 400 /\ status < 600

\* lines 56-60 and 67: the request headers; authorization tells whether the
\* Authorization header with the token is among them
get_auth_headers(token) == [authorization |-> token]

\* lines 62-101.  token: PRIVATE_REPO_TOKEN is set.  first and second are the
\* answers to the two requests: a status code (0 when requests.get raises,
\* e.g. on a connection error) and, for first, the Location header or None.
\* The result lists the requests sent, the value returned and which response
\* body was written to the file.
download_file(url, token, first, second) ==
    LET headers == get_auth_headers(token)
        req1 == [url |-> url, authorization |-> headers.authorization,
                 allow_redirects |-> FALSE]
        req2 == [url |-> first.location, authorization |-> FALSE,
                 allow_redirects |-> TRUE]
        failed(reqs) == [requests |-> reqs, returned |-> FALSE, saved |-> None]
    IN  IF first.status = 0 \/ first.status = 404 THEN failed(<<req1>>)
        ELSE IF first.status \in ManualRedirects
        THEN IF first.location = None THEN failed(<<req1>>)     \* KeyError
             ELSE IF second.status = 0 \/ RaisesForStatus(second.status)
             THEN failed(<<req1, req2>>)
             ELSE [requests |-> <<req1, req2>>, returned |-> TRUE,
                   saved |-> "second"]
        ELSE IF RaisesForStatus(first.status) THEN failed(<<req1>>)
        ELSE [requests |-> <<req1>>, returned |-> TRUE, saved |-> "first"]

\* the answers of the servers of the model
AssetUrls == {"https://api.github.com/repos/o/r/releases/assets/1"}
Locations == {None, "https://objects.githubusercontent.com/a1",
              "https://api.github.com/repos/o/r/releases/assets/2"}
FirstStatuses == {0, 200, 301, 302, 303, 307, 308, 404, 500}
SecondStatuses == {0, 200, 403}

InitDownload ==
    /\ MainIdle /\ sd = NoCall
    /\ fa = NoCall /\ vs = NoCall /\ ov = NoCall /\ tv = NoCall
    /\ sm = NoCall /\ mb = NoCall /\ par = NoCall
    /\ \E url \in AssetUrls, token \in BOOLEAN, s1 \in FirstStatuses,
          loc \in Locations, s2 \in SecondStatuses :
          dl = [pc |-> "call", url |-> url, token |-> token,
                first |-> [status |-> s1, location |-> loc],
                second |-> [status |-> s2],
                result |-> [requests |-> <<>>, returned |-> FALSE,
                            saved |-> None]]

DownloadFile ==
    /\ dl.pc = "call"
    /\ dl' = [dl EXCEPT !.pc = "done",
                 !.result = download_file(dl.url, dl.token, dl.first,
                                          dl.second)]
    /\ UNCHANGED <<sd, mainVars, appVars, fa, vs, ov, tv, sm, mb, par>>

NextDownload == DownloadFile

SpecDownload == InitDownload /\ [][NextDownload]_vars

\* the status codes of HTTP redirects that carry a Location
HttpRedirects == {301, 302, 303, 307, 308}

\* C18: whenever the first response is a redirect (to the target its Location
\* names), download_file sends a second request to that target without the
\* Authorization header and writes the file from it; no request to the
\* target carries the token.
C18_RedirectReissuedWithoutToken ==
    (/\ dl.pc = "done"
     /\ dl.first.status \in HttpRedirects /\ dl.first.location # None) =>
        LET reqs == dl.result.requests
        IN  /\ Len(reqs) = 2
            /\ reqs[2].url = dl.first.location
            /\ \A i \in 2..Len(reqs) : ~reqs[i].authorization
            /\ dl.result.returned => dl.result.saved = "second"

-----------------------------------------------------------------------------
(* Two normalizations of different applications side by side in one working *)
(* directory: the extraction directory of merge_bundle (lines 252-259, 263, *)
(* 285) and of process_apk (build_logic.py lines 293-299, 306).             *)

Procs == {1, 2}

\* the extraction directory of a normalization
ExtractDir(fn, path) ==
    IF fn = "merge_bundle" THEN MergeExtractDir(path)
    ELSE ProcessExtractDir(path)

\* the downloaded bundles of the two applications and what they hold
ParallelPaths ==
    {<<"downloads/youtube-v1.0.apkm", "downloads/reddit-v1.0.xapk">>,
     <<"downloads/youtube-v1.0.apkm", "downloads/reddit-v1.0.apkm">>,
     <<"downloads/youtube-v2.0.xapk", "downloads/reddit-v1.0.xapk">>,
     <<"downloads/youtube-v2.0.xapk", "downloads/reddit-v1.0.apkm">>}
ParallelMembers ==
    <<{"base.apk", "split_config.arm64_v8a.apk"},
      {"base.apk", "split_config.xxhdpi.apk"}>>

\* the files process i extracts: name and the process they come from
OwnFiles(i) == {[name |-> f, from |-> i] : f \in ParallelMembers[i]}

InitParallel ==
    /\ MainIdle /\ sd = NoCall
    /\ fa = NoCall /\ vs = NoCall /\ ov = NoCall /\ tv = NoCall
    /\ sm = NoCall /\ mb = NoCall /\ dl = NoCall
    /\ \E fn \in {"merge_bundle", "process_apk"}, paths \in ParallelPaths :
          par = [pc |-> "run", fn |-> fn, paths |-> paths,
                 at |-> [i \in Procs |-> "start"],
                 dirs |-> {}, files |-> {},
                 seen |-> [i \in Procs |-> {}]]

\* shutil.rmtree(extract_dir) if it exists, then os.makedirs(extract_dir)
PrepareDir(i) ==
    /\ par.pc = "run" /\ par.at[i] = "start"
    /\ LET d == ExtractDir(par.fn, par.paths[i])
       IN  par' = [par EXCEPT !.at[i] = "extract",
                      !.dirs = @ \cup {d},
                      !.files = {x \in @ : x.dir # d}]
    /\ UNCHANGED <<sd, mainVars, appVars, fa, vs, ov, tv, sm, mb, dl>>

\* extractall(extract_dir): the members are written, a file of the same name
\* is overwritten
ExtractAll(i) ==
    /\ par.pc = "run" /\ par.at[i] = "extract"
    /\ LET d == ExtractDir(par.fn, par.paths[i])
       IN  par' = [par EXCEPT !.at[i] = "walk",
                      !.dirs = @ \cup {d},
                      !.files = {x \in @ : ~(x.dir = d
                                            /\ x.name \in ParallelMembers[i])}
                                \cup {[dir |-> d, name |-> f.name,
                                       from |-> f.from] : f \in OwnFiles(i)}]
    /\ UNCHANGED <<sd, mainVars, appVars, fa, vs, ov, tv, sm, mb, dl>>

\* os.walk(extract_dir): the files the filter, then the merge tool or the
\* patcher, get to see
WalkDir(i) ==
    /\ par.pc = "run" /\ par.at[i] = "walk"
    /\ LET d == ExtractDir(par.fn, par.paths[i])
       IN  par' = [par EXCEPT
                      !.at[i] = IF par.fn = "merge_bundle" THEN "merged"
                                ELSE "done",
                      !.seen[i] = {[name |-> x.name, from |-> x.from] :
                                      x \in {y \in par.files : y.dir = d}}]
    /\ UNCHANGED <<sd, mainVars, appVars, fa, vs, ov, tv, sm, mb, dl>>

\* build_from_repo.py line 285: shutil.rmtree(extract_dir) after the merge
RemoveDir(i) ==
    /\ par.pc = "run" /\ par.at[i] = "merged"
    /\ LET d == ExtractDir(par.fn, par.paths[i])
       IN  par' = [par EXCEPT !.at[i] = "done",
                      !.dirs = @ \ {d},
                      !.files = {x \in @ : x.dir # d}]
    /\ UNCHANGED <<sd, mainVars, appVars, fa, vs, ov, tv, sm, mb, dl>>

NextParallel ==
    \E i \in Procs :
        PrepareDir(i) \/ ExtractAll(i) \/ WalkDir(i) \/ RemoveDir(i)

SpecParallel == InitParallel /\ [][NextParallel]_vars

\* C20: two applications normalized side by side use different extraction
\* directories, in merge_bundle and in process_apk, and each of them finds in
\* its directory exactly the members it extracted: none deleted by the
\* other, none of the other's mixed in.
C20_SeparateExtractDirs ==
    par.pc = "run" =>
        /\ (\A i \in Procs : par.at[i] # "start") =>
               ExtractDir(par.fn, par.paths[1]) # ExtractDir(par.fn, par.paths[2])
        /\ \A i \in Procs :
               par.at[i] \in {"merged", "done"} => par.seen[i] = OwnFiles(i)

-----------------------------------------------------------------------------
(* build_logic.main, the scraping driver: get_compatible_version, then the *)
(* four page fetches of scrape_apkmirror_full, then download and patch.    *)

\* Longest list-patches output, in lines.
MaxPatchLines == 2

\* build_logic.py line 98, re.search(r'\(([\d\.,\s]+)\)', line): group 1 or
\* None
ParenGroup(line) ==
    LET cls == Digits \cup Whitespace \cup {".", ","}
        ok(i) == /\ Char(line, i) = "("
                 /\ RunEnd(line, i + 1, cls) > i + 1
                 /\ RunEnd(line, i + 1, cls) <= Len(line)
                 /\ Char(line, RunEnd(line, i + 1, cls)) = ")"
        at == {i \in 1..Len(line) : ok(i)}
    IN  IF at = {} THEN None
        ELSE LET i == CHOOSE k \in at : \A j \in at : k <= j
             IN  SubSeq(line, i + 1, RunEnd(line, i + 1, cls) - 1)

\* line 101: the non-empty pieces of re.split(r'[,\s]+', v_str), as a set
SplitPieces(v_str) ==
    LET seps == Whitespace \cup {","}
        piece(i) == /\ Char(v_str, i) \notin seps
                    /\ (i = 1 \/ Char(v_str, i - 1) \in seps)
    IN  {SubSeq(v_str, i, RunEnd(v_str, i, Digits \cup {"."}) - 1) :
            i \in {k \in 1..Len(v_str) : piece(k)}}

\* line 103: re.match(r'^\d+(\.\d+)+$', v)
IsPlainVersion(v) ==
    LET p1 == RunEnd(v, 1, Digits)
        p2 == DotGroupsEnd(v, p1)
    IN  p1 > 1 /\ p2 > p1 /\ p2 = Len(v) + 1

\* lines 89-104: the set versions after the loop over the lines
CompatibleVersions(lines, package_name) ==
    UNION {{v \in SplitPieces(ParenGroup(lines[i])) : IsPlainVersion(v)} :
              i \in {k \in 1..Len(lines) :
                        /\ Contains(lines[k], package_name)
                        /\ ParenGroup(lines[k]) # None}}

\* lines 113-114: [int(x) for x in v.split('.')]
version_key(v) ==
    LET xs == Split(v, ".") IN [k \in 1..Len(xs) |-> ToInt(xs[k])]

\* lines 116-117: what sorted(...)[0] can be, an element of the greatest key
BestVersions(versions) ==
    {v \in versions :
        \A w \in versions : ~ListLess(version_key(v), version_key(w))}

\* lines 68-119.  The result is the set of values the call can return; None
\* stands for the return of line 110, exited for the error() of line 85.
get_compatible_version(cli, package_name, manual_version) ==
    IF IsManual(manual_version)
    THEN [exited |-> FALSE, values |-> {manual_version}]
    ELSE IF ~cli.ok THEN [exited |-> TRUE, values |-> {}]
    ELSE LET versions == CompatibleVersions(SplitLines(cli.output),
                                            package_name)
         IN  IF versions = {} THEN [exited |-> FALSE, values |-> {None}]
             ELSE [exited |-> FALSE, values |-> BestVersions(versions)]

\* the pages scrape_apkmirror_full fetches with get_soup, in order (lines
\* 144, 174, 220, 239), and the stage that follows each
ScrapeStages == <<"search", "release", "variant", "final">>
StageAfter(st) ==
    CASE st = "search" -> "release"
      [] st = "release" -> "variant"
      [] st = "variant" -> "final"
      [] st = "final" -> "patch"

\* the environment of the runs of the model
PatchLines == {YoutubePkg \o " (19.16.39, 19.2.0)",
               "Some patch " \o YoutubePkg \o " (19.16.9)",
               RedditPkg \o " (19.16.39)", YoutubePkg}
MirrorVersions == {"19.16.39", "19.16.9", "19.2.0"}

InitScrape ==
    /\ MainIdle /\ fa = NoCall /\ vs = NoCall /\ ov = NoCall /\ tv = NoCall
    /\ sm = NoCall /\ mb = NoCall /\ dl = NoCall /\ par = NoCall
    /\ \E ls \in SeqsUpTo(PatchLines, MaxPatchLines), ok \in BOOLEAN,
          m \in {"auto", "19.16.39"}, avail \in SUBSET MirrorVersions :
          /\ ~ok => ls = <<>>
          /\ sd = [pc |-> "version", package_name |-> YoutubePkg,
                   app_name |-> "youtube", manual_version |-> m,
                   cli |-> [ok |-> ok, output |-> JoinLines(ls)],
                   avail |-> avail, target_version |-> None,
                   fetches |-> <<>>, exit_code |-> -1, cause |-> None]

\* lines 338-341
ScrapeResolve ==
    /\ sd.pc = "version"
    /\ LET r == get_compatible_version(sd.cli, sd.package_name,
                                       sd.manual_version)
       IN  IF r.exited
           THEN sd' = [sd EXCEPT !.pc = "exited", !.exit_code = 1,
                                 !.cause = "list_patches"]
           ELSE \E v \in r.values :
                   IF v = None
                   THEN sd' = [sd EXCEPT !.pc = "exited", !.exit_code = 1,
                                         !.cause = "version"]
                   ELSE sd' = [sd EXCEPT !.pc = "search",
                                         !.target_version = v]
    /\ UNCHANGED <<mainVars, appVars, fa, vs, ov, tv, sm, mb, dl, par>>

\* lines 123-130 and 144-255: one get_soup call of scrape_apkmirror_full and
\* the search of the page for the element of that stage.  http_error: the
\* request raised (get_soup returns None); absent: the page came but lacks
\* the element.  Either way scrape_apkmirror_full returns None and main ends
\* at line 355.
ScrapeFetch ==
    /\ sd.pc \in {"search", "release", "variant", "final"}
    /\ \E outcome \in {"ok", "http_error", "absent"} :
          /\ (sd.pc = "search" /\ outcome = "ok") =>
                 sd.target_version \in sd.avail
          /\ (sd.pc = "search" /\ outcome = "absent") =>
                 sd.target_version \notin sd.avail
          /\ LET f == [stage |-> sd.pc, version |-> sd.target_version,
                       outcome |-> outcome]
             IN  IF outcome = "ok"
                 THEN sd' = [sd EXCEPT !.pc = StageAfter(sd.pc),
                                       !.fetches = Append(@, f)]
                 ELSE sd' = [sd EXCEPT !.pc = "exited", !.exit_code = 1,
                                       !.cause = outcome,
                                       !.fetches = Append(@, f)]
    /\ UNCHANGED <<mainVars, appVars, fa, vs, ov, tv, sm, mb, dl, par>>

\* lines 257-261 and 358-386: download, process_apk and the patch subprocess;
\* done: all of them went through
ScrapePatch ==
    /\ sd.pc = "patch"
    /\ \E done \in BOOLEAN :
          sd' = [sd EXCEPT !.pc = "exited",
                    !.exit_code = IF done THEN 0 ELSE 1,
                    !.cause = IF done THEN None ELSE "patch"]
    /\ UNCHANGED <<mainVars, appVars, fa, vs, ov, tv, sm, mb, dl, par>>

NextScrape == ScrapeResolve \/ ScrapeFetch \/ ScrapePatch

SpecScrape == InitScrape /\ [][NextScrape]_vars

\* C21: in the scraping driver, a page fetch that fails with an HTTP error is
\* followed by exactly one more fetch of the same stage, and the run gives up
\* on the version only after that second failure; a page that lacks its
\* element is not fetched again.
C21_TransientFetchRetriedOnce ==
    sd.pc = "exited" =>
        \A k \in 1..Len(sd.fetches) :
            LET f == sd.fetches[k]
                first == k = 1 \/ sd.fetches[k - 1].stage # f.stage
            IN  /\ (f.outcome = "http_error" /\ first) =>
                       /\ k < Len(sd.fetches)
                       /\ sd.fetches[k + 1].stage = f.stage
                /\ f.outcome = "absent" => k = Len(sd.fetches)

\* C22: with override Auto the scraping driver goes through the compatible
\* versions in descending order: when it ends because the search page has no
\* release of a version, every compatible version has been searched for.
C22_ScrapeTriesEveryVersion ==
    (/\ sd.pc = "exited" /\ sd.manual_version = "auto"
     /\ sd.cause = "absent"
     /\ sd.fetches[Len(sd.fetches)].stage = "search") =>
        \A v \in CompatibleVersions(SplitLines(sd.cli.output),
                                    sd.package_name) :
            \E k \in 1..Len(sd.fetches) :
                sd.fetches[k].stage = "search" /\ sd.fetches[k].version = v

====
